---- MODULE Spec2Model ----
(***************************************************************************)
(* Telegram Stories API (src/api.py): the shared Pyrogram client handle,   *)
(* ensure_client under client_lock, the lifespan, and the four request     *)
(* handlers, run as coroutines on one event-loop thread.                   *)
(*                                                                         *)
(* A coroutine runs from one await to the next without interruption.       *)
(* `running` is the coroutine that holds the thread (0: the loop is idle   *)
(* and may resume any coroutine whose await has completed).  A position    *)
(* "aw_..." is a coroutine suspended at that await.                        *)
(***************************************************************************)
EXTENDS Integers, Sequences, FiniteSets, TLC

\* ---- bounds of the model
MaxReqs == 2          \* request coroutines in flight at once
MaxClients == 3       \* Client(...) objects constructed in one run
MaxActive == 1        \* active stories of the account
MaxPinned == 1        \* pinned stories of the account
MaxPages == 2         \* full archive pages of the account

\* ---- program constant: limit=100 of GetPinnedStories / GetStoriesArchive
Limit == 100

None == 0
Lifespan == 0
Reqs == 1..MaxReqs
Procs == {Lifespan} \cup Reqs

VARIABLES
  user,          \* the global `user`: None or the index of a handle in clients
  clients,       \* every Client object constructed so far
  client_lock,   \* threading.Lock: None or the coroutine that holds it
  running,       \* the coroutine holding the event-loop thread, or None
  pc,            \* position of each coroutine
  ecret,         \* return value of the coroutine's ensure_client call
  startCalls,    \* start() calls issued by the coroutine's current ensure_client call
  world,         \* what Telegram holds for the requested username
  files,         \* local files under /tmp
  req,           \* the request each handler serves
  input_peer,    \* handler local
  offset_id,     \* handler local
  all_stories,   \* handler local
  target_story,  \* handler local (None or the story's id)
  story_type,    \* handler local
  media_type,    \* handler local
  file_path,     \* handler local (None or a path)
  upload_url,    \* handler local (None or an url)
  fetched,       \* stories the listing calls handed to the handler so far
  response       \* the response the handler returned

clientVars == <<user, clients, client_lock>>
taskVars == <<running, pc, ecret, startCalls>>
localVars == <<input_peer, offset_id, all_stories, target_story, story_type,
               media_type, file_path, upload_url, fetched>>
vars == <<user, clients, client_lock, running, pc, ecret, startCalls, world,
          files, req, input_peer, offset_id, all_stories, target_story,
          story_type, media_type, file_path, upload_url, fetched, response>>

Min(a, b) == IF a < b THEN a ELSE b
Max(a, b) == IF a < b THEN b ELSE a

\* ------------------------------------------------------------------------
\* The client handle

NewClient == [started |-> FALSE, connected |-> FALSE]

\* Client(...) at lines 38 and 66: a new object, bound to the global
Construct ==
  /\ Len(clients) < MaxClients
  /\ clients' = Append(clients, NewClient)
  /\ user' = Len(clients) + 1

\* a successful start() of handle h
Started(h) == [clients EXCEPT ![h] = [started |-> TRUE, connected |-> TRUE]]

\* user.stop()
Stopped(h) == [clients EXCEPT ![h] = [started |-> FALSE, connected |-> FALSE]]

\* getattr(user, 'is_connected', False), lines 54-58
IsConnected == clients[user].connected

\* handles that were started and have not been stopped
Live == {h \in 1..Len(clients) : clients[h].started}

\* leaving `with client_lock:` by a return
ReturnFromEnsure(p, value) ==
  /\ client_lock' = None
  /\ ecret' = [ecret EXCEPT ![p] = value]
  /\ pc' = [pc EXCEPT ![p] = "ec_ret"]
  /\ running' = p

\* issuing `await user.start()`: the coroutine is suspended with the lock held
AwaitStart(p, at) ==
  /\ pc' = [pc EXCEPT ![p] = at]
  /\ startCalls' = [startCalls EXCEPT ![p] = @ + 1]
  /\ running' = None
  /\ UNCHANGED ecret

\* `with client_lock:` and the code up to the first await or return.
\* threading.Lock.acquire blocks the calling thread: when another coroutine
\* holds the lock, the event-loop thread stops inside acquire.
EnsureClientLock(p) ==
  /\ running = p
  /\ pc[p] = "ec_lock"
  /\ IF client_lock # None
       THEN /\ pc' = [pc EXCEPT ![p] = "ec_blocked"]
            /\ UNCHANGED <<clientVars, running, ecret, startCalls>>
       ELSE IF user = None
         THEN /\ Construct
              /\ client_lock' = p
              /\ AwaitStart(p, "aw_start_new")
         ELSE IF IsConnected
           THEN /\ ReturnFromEnsure(p, TRUE)
                /\ UNCHANGED <<user, clients, startCalls>>
           ELSE /\ client_lock' = p
                /\ AwaitStart(p, "aw_restart")
                /\ UNCHANGED <<user, clients>>
  /\ UNCHANGED <<world, files, req, localVars, response>>

\* line 45 completes: started, or the except branch of lines 48-51
StartNewDone(p) ==
  /\ running = None
  /\ pc[p] = "aw_start_new"
  /\ \E ok \in BOOLEAN :
       IF ok
         THEN /\ clients' = Started(user)
              /\ UNCHANGED user
              /\ ReturnFromEnsure(p, TRUE)
         ELSE /\ user' = None
              /\ UNCHANGED clients
              /\ ReturnFromEnsure(p, FALSE)
  /\ UNCHANGED <<startCalls, world, files, req, localVars, response>>

\* line 61 completes: reconnected, or the except branch of lines 63-73 builds
\* a new Client and awaits its start()
RestartDone(p) ==
  /\ running = None
  /\ pc[p] = "aw_restart"
  /\ \E ok \in BOOLEAN :
       IF ok
         THEN /\ clients' = Started(user)
              /\ UNCHANGED <<user, startCalls>>
              /\ ReturnFromEnsure(p, TRUE)
         ELSE /\ Construct
              /\ AwaitStart(p, "aw_recreate")
              /\ UNCHANGED client_lock
  /\ UNCHANGED <<world, files, req, localVars, response>>

\* a slip: a failed recreation is tried again
RecreateDoneRetry(p) ==
  /\ running = None
  /\ pc[p] = "aw_recreate"
  /\ \E ok \in BOOLEAN :
       IF ok
         THEN /\ clients' = Started(user)
              /\ UNCHANGED <<user, startCalls>>
              /\ ReturnFromEnsure(p, TRUE)
         ELSE /\ Construct
              /\ AwaitStart(p, "aw_recreate")
              /\ UNCHANGED client_lock
  /\ UNCHANGED <<world, files, req, localVars, response>>

\* line 73 completes: recreated, or the except branch of lines 75-78
RecreateDone(p) ==
  /\ running = None
  /\ pc[p] = "aw_recreate"
  /\ \E ok \in BOOLEAN :
       IF ok
         THEN /\ clients' = Started(user)
              /\ UNCHANGED user
              /\ ReturnFromEnsure(p, TRUE)
         ELSE /\ user' = None
              /\ UNCHANGED clients
              /\ ReturnFromEnsure(p, FALSE)
  /\ UNCHANGED <<startCalls, world, files, req, localVars, response>>

\* entering ensure_client: a call, no suspension
CallEnsure(p) ==
  /\ pc' = [pc EXCEPT ![p] = "ec_lock"]
  /\ startCalls' = [startCalls EXCEPT ![p] = 0]
  /\ running' = p
  /\ UNCHANGED ecret

\* the connection of the current handle drops: the library's own tasks on the
\* event loop notice it and is_connected becomes False
ConnectionLost ==
  /\ running = None
  /\ user # None
  /\ clients[user].connected
  /\ pc[Lifespan] = "serving"
  /\ clients' = [clients EXCEPT ![user].connected = FALSE]
  /\ UNCHANGED <<user, client_lock, taskVars, world, files, req, localVars, response>>

\* ------------------------------------------------------------------------
\* lifespan

LifespanStartup ==
  /\ running = None
  /\ pc[Lifespan] = "startup"
  /\ CallEnsure(Lifespan)
  /\ UNCHANGED <<clientVars, world, files, req, localVars, response>>

\* lines 152-160: the result is only logged, then the application serves
LifespanYield ==
  /\ running = Lifespan
  /\ pc[Lifespan] = "ec_ret"
  /\ pc' = [pc EXCEPT ![Lifespan] = "serving"]
  /\ running' = None
  /\ UNCHANGED <<clientVars, ecret, startCalls, world, files, req, localVars, response>>

\* lines 162-166, once the server has no request in flight
LifespanShutdown ==
  /\ running = None
  /\ pc[Lifespan] = "serving"
  /\ \A r \in Reqs : pc[r] \in {"idle", "done"}
  /\ clients' = IF user # None THEN Stopped(user) ELSE clients
  /\ pc' = [pc EXCEPT ![Lifespan] = "stopped"]
  /\ UNCHANGED <<user, client_lock, running, ecret, startCalls, world, files,
                 req, localVars, response>>

\* ------------------------------------------------------------------------
\* Telegram, as the listing calls see it.  The account's archive holds the
\* stories 1..archive, its pinned stories follow, its active stories follow
\* those; `bad` is a story that lacks `date` and `media` (a deleted item),
\* or None.

Worlds(peers, actives, pinneds, archives, flaky) ==
  { w \in [peer : peers, active : actives, pinned : pinneds, archive : archives,
           bad : 0..(MaxPages * Limit + MaxPinned + MaxActive + 1), flaky : flaky] :
      w.bad \in IF w.flaky
                  THEN {None, 1, w.archive, w.archive + w.pinned + w.active}
                  ELSE {None} }

\* the outcomes of a call to Telegram: it returns, or (on a flaky network) raises
Outcomes == IF world.flaky THEN BOOLEAN ELSE {TRUE}

Range(s) == {s[i] : i \in 1..Len(s)}

\* ids hi, hi-1, ..., lo
Descending(hi, lo) == [i \in 1..Max(0, hi - lo + 1) |-> hi - i + 1]

\* GetPeerStories(peer): result.stories.stories
ActiveStories(w) == [i \in 1..w.active |-> w.archive + w.pinned + i]

\* GetPinnedStories(peer, offset_id=0, limit): the newest `limit` pinned stories
PinnedStories(w, limit) ==
  Descending(w.archive + w.pinned, w.archive + w.pinned - Min(w.pinned, limit) + 1)

\* GetStoriesArchive(peer, offset_id, limit): the newest `limit` stories older
\* than offset_id (all of them when offset_id is 0)
ArchivePage(w, offset, limit) ==
  LET hi == IF offset = 0 THEN w.archive ELSE Min(offset - 1, w.archive)
  IN  Descending(hi, Max(1, hi - limit + 1))

\* format_story_info(story, story_type) of a story that has a date
format_story_info(story, type) == [story_id |-> story, type |-> type]

\* the stories of `list` that come before the first one on which
\* format_story_info (or a comparison loop) stops
Before(list, stop) ==
  IF stop \in Range(list)
    THEN SubSeq(list, 1, (CHOOSE i \in 1..Len(list) : list[i] = stop) - 1)
    ELSE list

\* `for story in list: all_stories.append(format_story_info(story, type))`,
\* cut short by the exception a story without date raises
AppendFormatted(acc, list, type, bad) ==
  acc \o [i \in 1..Len(Before(list, bad)) |-> format_story_info(Before(list, bad)[i], type)]

\* a slip: the offset taken from the first story of the page
NextOffsetFirst(page) == page[1]

\* the offset of the next archive request: archive_result.stories[-1].id
NextOffset(page) == page[Len(page)]

\* a slip: a full page ends the loop as well
ShortPageInclusive(page) == Len(page) <= Limit

\* the loop's test for leaving after a page: len(archive_result.stories) < 100
ShortPage(page) == Len(page) < Limit

\* ------------------------------------------------------------------------
\* Responses

Attribution == [api_dev |-> "@ISmartCoder", api_channel |-> "@abirxdhackz"]

NoResponse == [status |-> 0, body |-> [k \in {} |-> TRUE]]

Failure(status, error) ==
  [status |-> status,
   body |-> [success |-> FALSE, error |-> error,
             api_dev |-> Attribution.api_dev, api_channel |-> Attribution.api_channel]]

\* a handler returns: its coroutine ends and the thread goes back to the loop
Return(p, r) ==
  /\ response' = [response EXCEPT ![p] = r]
  /\ pc' = [pc EXCEPT ![p] = "done"]
  /\ running' = None

\* the handler's outer `except Exception as e`: 500 with str(e)
CatchAll(p, e) == Return(p, Failure(500, e))

\* a call on the global `user` is issued: AttributeError when it is None,
\* otherwise the coroutine is suspended at the await
Goto(p, at) == pc' = [pc EXCEPT ![p] = at]
Suspend(p, at) == Goto(p, at) /\ running' = None

NoFetch == [active |-> 0, pinned |-> 0, archived |-> 0, raised |-> {}]

Raised(p, listing) == [fetched EXCEPT ![p].raised = @ \cup {listing}]

\* ------------------------------------------------------------------------
\* GET /

root(p) ==
  /\ running = None
  /\ pc[Lifespan] = "serving"
  /\ pc[p] = "idle"
  /\ req' = [req EXCEPT ![p] = [endpoint |-> "root", storyid |-> 0]]
  /\ Return(p, [status |-> 200,
                body |-> [status |-> "online", api |-> "Telegram Stories API",
                          version |-> "1.0.0", endpoints |-> 3,
                          api_dev |-> Attribution.api_dev,
                          api_channel |-> Attribution.api_channel]])
  /\ UNCHANGED <<clientVars, ecret, startCalls, world, files, localVars>>

\* ------------------------------------------------------------------------
\* The three /api handlers up to resolve_peer_helper

StoryIds(w) ==
  {1, w.archive, w.archive + w.pinned, w.archive + w.pinned + w.active,
   w.archive + w.pinned + w.active + 1}

\* a request arrives and its handler runs into ensure_client
Request(p) ==
  /\ running = None
  /\ pc[Lifespan] = "serving"
  /\ pc[p] = "idle"
  /\ \E e \in {"current", "all", "special"} :
       \E id \in (IF e = "special" THEN StoryIds(world) ELSE {0}) :
         req' = [req EXCEPT ![p] = [endpoint |-> e, storyid |-> id]]
  /\ CallEnsure(p)
  /\ UNCHANGED <<clientVars, world, files, localVars, response>>

\* `if not await ensure_client(): return 500`, then resolve_peer_helper is
\* entered and user.resolve_peer awaited (lines 188-197, 236-245, 318-327)
AfterEnsure(p) ==
  /\ running = p
  /\ p \in Reqs
  /\ pc[p] = "ec_ret"
  /\ IF ~ecret[p]
       THEN Return(p, Failure(500, "Client initialization failed"))
       ELSE IF user = None
         THEN CatchAll(p, "AttributeError")
         ELSE Suspend(p, "aw_resolve") /\ UNCHANGED response
  /\ UNCHANGED <<clientVars, ecret, startCalls, world, files, req, localVars>>

\* what the handler does with resolve_peer_helper's outcome (lines 120-133):
\* an InputPeer for a user or a channel, otherwise HTTPException(400), which
\* the handler's `except Exception` turns into its response
UnsupportedPeer(p) == CatchAll(p, "HTTPException(400): Unsupported peer type")

ResolveDone(p) ==
  /\ running = None
  /\ pc[p] = "aw_resolve"
  /\ IF world.peer \in {"user", "channel"}
       THEN /\ input_peer' = [input_peer EXCEPT ![p] = world.peer]
            /\ all_stories' = [all_stories EXCEPT ![p] = <<>>]
            /\ target_story' = [target_story EXCEPT ![p] = None]
            /\ story_type' = [story_type EXCEPT ![p] = "None"]
            /\ Goto(p, "call_active")
            /\ running' = p
            /\ UNCHANGED response
       ELSE /\ IF world.peer = "other"
                 THEN UnsupportedPeer(p)
                 ELSE CatchAll(p, "UsernameNotOccupied")
            /\ UNCHANGED <<input_peer, all_stories, target_story, story_type>>
  /\ UNCHANGED <<clientVars, ecret, startCalls, world, files, req, offset_id,
                 media_type, file_path, upload_url, fetched>>

\* the listing-call positions shared by the three handlers
On(p, endpoint, at) == p \in Reqs /\ req[p].endpoint = endpoint /\ pc[p] = at
Running(p, endpoint, at) == running = p /\ On(p, endpoint, at)
Resumed(p, endpoint, at) == running = None /\ On(p, endpoint, at)

\* ------------------------------------------------------------------------
\* GET /api/current (lines 185-231)

CurrentBody(stories) ==
  [success |-> TRUE, username |-> "username", count |-> Len(stories),
   stories |-> stories,
   api_dev |-> Attribution.api_dev, api_channel |-> Attribution.api_channel]

\* line 199: user.invoke(GetPeerStories) is issued
CurrentCallActive(p) ==
  /\ Running(p, "current", "call_active")
  /\ IF user = None
       THEN CatchAll(p, "AttributeError")
       ELSE Suspend(p, "aw_active") /\ UNCHANGED response
  /\ UNCHANGED <<clientVars, ecret, startCalls, world, files, req, localVars>>

\* lines 203-231
CurrentActiveDone(p) ==
  /\ Resumed(p, "current", "aw_active")
  /\ \E ok \in Outcomes :
       LET list == ActiveStories(world) IN
       IF ~ok
         THEN CatchAll(p, "RPCError")
         ELSE IF world.bad # None /\ world.bad \in Range(list)
           THEN CatchAll(p, "AttributeError")
           ELSE Return(p, [status |-> 200,
                           body |-> CurrentBody(AppendFormatted(<<>>, list, "Active", None))])
  /\ UNCHANGED <<clientVars, ecret, startCalls, world, files, req, localVars>>

\* ------------------------------------------------------------------------
\* GET /api/all (lines 233-313)

AllBody(stories) ==
  [success |-> TRUE, username |-> "username", total_count |-> Len(stories),
   stories |-> stories,
   api_dev |-> Attribution.api_dev, api_channel |-> Attribution.api_channel]

\* lines 297-304
AllReturn(p, stories) == Return(p, [status |-> 200, body |-> AllBody(stories)])

\* a listing's result is appended story by story; a story without date ends
\* the listing with an exception that the listing's own `except` logs
Listed(p, list, listing) ==
  [fetched EXCEPT ![p][listing] = @ + Len(list),
                  ![p].raised = IF world.bad # None /\ world.bad \in Range(list)
                                  THEN @ \cup {listing} ELSE @]

\* line 250: GetPeerStories is issued
AllCallActive(p) ==
  /\ Running(p, "all", "call_active")
  /\ IF user = None
       THEN /\ fetched' = Raised(p, "active")
            /\ Goto(p, "call_pinned")
            /\ UNCHANGED running
       ELSE Suspend(p, "aw_active") /\ UNCHANGED fetched
  /\ UNCHANGED <<clientVars, ecret, startCalls, world, files, req, input_peer,
                 offset_id, all_stories, target_story, story_type, media_type,
                 file_path, upload_url, response>>

\* lines 253-257
AllActiveDone(p) ==
  /\ Resumed(p, "all", "aw_active")
  /\ \E ok \in Outcomes :
       LET list == ActiveStories(world) IN
       IF ~ok
         THEN fetched' = Raised(p, "active") /\ UNCHANGED all_stories
         ELSE /\ all_stories' = [all_stories EXCEPT ![p] =
                                   AppendFormatted(@, list, "Active", world.bad)]
              /\ fetched' = Listed(p, list, "active")
  /\ Goto(p, "call_pinned")
  /\ running' = p
  /\ UNCHANGED <<clientVars, ecret, startCalls, world, files, req, input_peer,
                 offset_id, target_story, story_type, media_type, file_path,
                 upload_url, response>>

\* line 260: GetPinnedStories is issued; line 274 follows the pinned block
AllCallPinned(p) ==
  /\ Running(p, "all", "call_pinned")
  /\ IF user = None
       THEN /\ fetched' = Raised(p, "pinned")
            /\ offset_id' = [offset_id EXCEPT ![p] = 0]
            /\ Goto(p, "call_archive")
            /\ UNCHANGED running
       ELSE Suspend(p, "aw_pinned") /\ UNCHANGED <<fetched, offset_id>>
  /\ UNCHANGED <<clientVars, ecret, startCalls, world, files, req, input_peer,
                 all_stories, target_story, story_type, media_type, file_path,
                 upload_url, response>>

\* lines 267-274
AllPinnedDone(p) ==
  /\ Resumed(p, "all", "aw_pinned")
  /\ \E ok \in Outcomes :
       LET list == PinnedStories(world, Limit) IN
       IF ~ok
         THEN fetched' = Raised(p, "pinned") /\ UNCHANGED all_stories
         ELSE /\ all_stories' = [all_stories EXCEPT ![p] =
                                   AppendFormatted(@, list, "Pinned", world.bad)]
              /\ fetched' = Listed(p, list, "pinned")
  /\ offset_id' = [offset_id EXCEPT ![p] = 0]
  /\ Goto(p, "call_archive")
  /\ running' = p
  /\ UNCHANGED <<clientVars, ecret, startCalls, world, files, req, input_peer,
                 target_story, story_type, media_type, file_path, upload_url,
                 response>>

\* line 276: GetStoriesArchive(offset_id) is issued
AllCallArchive(p) ==
  /\ Running(p, "all", "call_archive")
  /\ IF user = None
       THEN /\ fetched' = Raised(p, "archived")
            /\ AllReturn(p, all_stories[p])
       ELSE Suspend(p, "aw_archive") /\ UNCHANGED <<fetched, response>>
  /\ UNCHANGED <<clientVars, ecret, startCalls, world, files, req, input_peer,
                 offset_id, all_stories, target_story, story_type, media_type,
                 file_path, upload_url>>

\* lines 284-304: one page of the archive
AllArchiveDone(p) ==
  /\ Resumed(p, "all", "aw_archive")
  /\ \E ok \in Outcomes :
       LET page == ArchivePage(world, offset_id[p], Limit)
           stories == AppendFormatted(all_stories[p], page, "Archived", world.bad)
       IN
       IF ~ok
         THEN /\ fetched' = Raised(p, "archived")
              /\ AllReturn(p, all_stories[p])
              /\ UNCHANGED <<all_stories, offset_id>>
         ELSE /\ all_stories' = [all_stories EXCEPT ![p] = stories]
              /\ fetched' = Listed(p, page, "archived")
              /\ IF \/ page = <<>>
                    \/ (world.bad # None /\ world.bad \in Range(page))
                    \/ ShortPage(page)
                   THEN AllReturn(p, stories) /\ UNCHANGED offset_id
                   ELSE /\ offset_id' = [offset_id EXCEPT ![p] = NextOffset(page)]
                        /\ Goto(p, "call_archive")
                        /\ running' = p
                        /\ UNCHANGED response
  /\ UNCHANGED <<clientVars, ecret, startCalls, world, files, req, input_peer,
                 target_story, story_type, media_type, file_path, upload_url>>

\* ------------------------------------------------------------------------
\* GET /api/special (lines 315-488)

\* a slip: the loop variable is kept when no story matched
SearchKeepsLast(p, list, type) ==
  IF list # <<>>
    THEN /\ target_story' = [target_story EXCEPT ![p] =
                               IF req[p].storyid \in Range(list)
                                 THEN req[p].storyid ELSE list[Len(list)]]
         /\ story_type' = [story_type EXCEPT ![p] = type]
    ELSE UNCHANGED <<target_story, story_type>>

\* `for story in list: if story.id == storyid: target_story = story; break`
Search(p, list, type) ==
  IF req[p].storyid \in Range(list)
    THEN /\ target_story' = [target_story EXCEPT ![p] = req[p].storyid]
         /\ story_type' = [story_type EXCEPT ![p] = type]
    ELSE UNCHANGED <<target_story, story_type>>

\* `if not target_story:` before the pinned and the archive block
Unless(found, p, at) == Goto(p, IF found = None THEN at ELSE "check")

\* line 333: GetPeerStories is issued
SpecialCallActive(p) ==
  /\ Running(p, "special", "call_active")
  /\ IF user = None
       THEN Goto(p, "call_pinned") /\ UNCHANGED running
       ELSE Suspend(p, "aw_active")
  /\ UNCHANGED <<clientVars, ecret, startCalls, world, files, req, localVars, response>>

\* lines 336-345
SpecialActiveDone(p) ==
  /\ Resumed(p, "special", "aw_active")
  /\ \E ok \in Outcomes :
       LET list == ActiveStories(world) IN
       IF ~ok
         THEN UNCHANGED <<target_story, story_type>>
         ELSE Search(p, list, "Active")
  /\ Unless(target_story'[p], p, "call_pinned")
  /\ running' = p
  /\ UNCHANGED <<clientVars, ecret, startCalls, world, files, req, input_peer,
                 offset_id, all_stories, media_type, file_path, upload_url,
                 fetched, response>>

\* line 347: GetPinnedStories is issued; lines 363-365 follow the pinned block
SpecialCallPinned(p) ==
  /\ Running(p, "special", "call_pinned")
  /\ IF user = None
       THEN /\ offset_id' = [offset_id EXCEPT ![p] = 0]
            /\ Goto(p, "call_archive")
            /\ UNCHANGED running
       ELSE Suspend(p, "aw_pinned") /\ UNCHANGED offset_id
  /\ UNCHANGED <<clientVars, ecret, startCalls, world, files, req, input_peer,
                 all_stories, target_story, story_type, media_type, file_path,
                 upload_url, fetched, response>>

\* lines 354-365
SpecialPinnedDone(p) ==
  /\ Resumed(p, "special", "aw_pinned")
  /\ \E ok \in Outcomes :
       LET list == PinnedStories(world, Limit) IN
       IF ~ok
         THEN UNCHANGED <<target_story, story_type>>
         ELSE Search(p, list, "Pinned")
  /\ offset_id' = [offset_id EXCEPT ![p] = 0]
  /\ Unless(target_story'[p], p, "call_archive")
  /\ running' = p
  /\ UNCHANGED <<clientVars, ecret, startCalls, world, files, req, input_peer,
                 all_stories, media_type, file_path, upload_url, fetched, response>>

\* line 367: GetStoriesArchive(offset_id) is issued
SpecialCallArchive(p) ==
  /\ Running(p, "special", "call_archive")
  /\ IF user = None
       THEN /\ fetched' = Raised(p, "archived")
            /\ Goto(p, "check")
            /\ UNCHANGED running
       ELSE Suspend(p, "aw_archive") /\ UNCHANGED fetched
  /\ UNCHANGED <<clientVars, ecret, startCalls, world, files, req, input_peer,
                 offset_id, all_stories, target_story, story_type, media_type,
                 file_path, upload_url, response>>

\* lines 375-392: one page of the archive
SpecialArchiveDone(p) ==
  /\ Resumed(p, "special", "aw_archive")
  /\ \E ok \in Outcomes :
       LET page == ArchivePage(world, offset_id[p], Limit) IN
       IF ~ok
         THEN /\ fetched' = Raised(p, "archived")
              /\ Goto(p, "check")
              /\ UNCHANGED <<target_story, story_type, offset_id>>
         ELSE /\ Search(p, page, "Archived")
              /\ UNCHANGED fetched
              /\ IF \/ page = <<>>
                    \/ target_story'[p] # None
                    \/ ShortPage(page)
                   THEN Goto(p, "check") /\ UNCHANGED offset_id
                   ELSE /\ offset_id' = [offset_id EXCEPT ![p] = NextOffset(page)]
                        /\ Goto(p, "call_archive")
  /\ running' = p
  /\ UNCHANGED <<clientVars, ecret, startCalls, world, files, req, input_peer,
                 all_stories, media_type, file_path, upload_url, response>>

\* the media kinds of lines 409-451: photo, document with a video mime type,
\* other document, anything else
MediaKinds == {"photo", "video", "document", "none"}

\* a slip: JSONResponse without status_code
NotFoundDefaultStatus(p) == Return(p, Failure(200, "Story not found"))

\* lines 394-400
NotFound(p) == Return(p, Failure(404, "Story not found"))

\* lines 394-451: 404, or the media kind is read and download_media issued
SpecialCheck(p) ==
  /\ Running(p, "special", "check")
  /\ IF target_story[p] = None
       THEN NotFound(p) /\ UNCHANGED media_type
       ELSE IF target_story[p] = world.bad
         THEN CatchAll(p, "AttributeError") /\ UNCHANGED media_type
         ELSE \E m \in MediaKinds :
                IF m = "none"
                  THEN /\ Return(p, Failure(400, "Unsupported media type"))
                       /\ UNCHANGED media_type
                  ELSE /\ media_type' = [media_type EXCEPT ![p] = m]
                       /\ IF user = None
                            THEN CatchAll(p, "AttributeError")
                            ELSE Suspend(p, "aw_download") /\ UNCHANGED response
  /\ UNCHANGED <<clientVars, ecret, startCalls, world, files, req, input_peer,
                 offset_id, all_stories, target_story, story_type, file_path,
                 upload_url, fetched>>

\* lines 421/444 complete: a file under /tmp, None, or an exception; with a
\* path upload_to_tmpfiles is entered (line 453).  With None its open() fails
\* inside upload_to_tmpfiles and os.path.exists(None) raises TypeError.
SpecialDownloadDone(p) ==
  /\ Resumed(p, "special", "aw_download")
  /\ \E out \in {"file", "none", "raise"} :
       IF out = "file"
         THEN /\ file_path' = [file_path EXCEPT ![p] = p]
              /\ files' = files \cup {p}
              /\ Suspend(p, "aw_upload")
              /\ UNCHANGED response
         ELSE /\ CatchAll(p, IF out = "none" THEN "TypeError" ELSE "RPCError")
              /\ UNCHANGED <<file_path, files>>
  /\ UNCHANGED <<clientVars, ecret, startCalls, world, req, input_peer,
                 offset_id, all_stories, target_story, story_type, media_type,
                 upload_url, fetched>>

\* upload_to_tmpfiles returns (lines 93-118): the download url, or None
SpecialUploadDone(p) ==
  /\ Resumed(p, "special", "aw_upload")
  /\ \E url \in {None, file_path[p]} :
       upload_url' = [upload_url EXCEPT ![p] = url]
  /\ Goto(p, "remove")
  /\ running' = p
  /\ UNCHANGED <<clientVars, ecret, startCalls, world, files, req, input_peer,
                 offset_id, all_stories, target_story, story_type, media_type,
                 file_path, fetched, response>>

SpecialBody(p) ==
  [success |-> TRUE, username |-> "username", story_id |-> req[p].storyid,
   type |-> story_type[p], media_type |-> media_type[p], date |-> "date",
   timestamp |-> "timestamp", caption |-> "caption",
   download_url |-> upload_url[p], expires_in |-> "60 minutes",
   api_dev |-> Attribution.api_dev, api_channel |-> Attribution.api_channel]

\* a slip: the local copy is left behind
RemoveLocalSkipped(path) == files

\* lines 455-456: the local copy is deleted
RemoveLocal(path) == files \ {path}

\* lines 455-479
SpecialRemove(p) ==
  /\ Running(p, "special", "remove")
  /\ files' = RemoveLocal(file_path[p])
  /\ IF upload_url[p] = None
       THEN Return(p, Failure(500, "Failed to upload file"))
       ELSE Return(p, [status |-> 200, body |-> SpecialBody(p)])
  /\ UNCHANGED <<clientVars, ecret, startCalls, world, req, localVars>>

\* ------------------------------------------------------------------------
\* Specifications

InitWith(worlds) ==
  /\ user = None
  /\ clients = <<>>
  /\ client_lock = None
  /\ running = None
  /\ pc = [p \in Procs |-> IF p = Lifespan THEN "startup" ELSE "idle"]
  /\ ecret = [p \in Procs |-> FALSE]
  /\ startCalls = [p \in Procs |-> 0]
  /\ world \in worlds
  /\ files = {}
  /\ req = [p \in Reqs |-> [endpoint |-> "", storyid |-> 0]]
  /\ input_peer = [p \in Reqs |-> "None"]
  /\ offset_id = [p \in Reqs |-> 0]
  /\ all_stories = [p \in Reqs |-> <<>>]
  /\ target_story = [p \in Reqs |-> None]
  /\ story_type = [p \in Reqs |-> "None"]
  /\ media_type = [p \in Reqs |-> "None"]
  /\ file_path = [p \in Reqs |-> None]
  /\ upload_url = [p \in Reqs |-> None]
  /\ fetched = [p \in Reqs |-> NoFetch]
  /\ response = [p \in Reqs |-> NoResponse]

EnsureClient(p) ==
  \/ EnsureClientLock(p)
  \/ StartNewDone(p)
  \/ RestartDone(p)
  \/ RecreateDone(p)

Handler(p) ==
  \/ root(p)
  \/ Request(p)
  \/ AfterEnsure(p)
  \/ ResolveDone(p)
  \/ CurrentCallActive(p)
  \/ CurrentActiveDone(p)
  \/ AllCallActive(p)
  \/ AllActiveDone(p)
  \/ AllCallPinned(p)
  \/ AllPinnedDone(p)
  \/ AllCallArchive(p)
  \/ AllArchiveDone(p)
  \/ SpecialCallActive(p)
  \/ SpecialActiveDone(p)
  \/ SpecialCallPinned(p)
  \/ SpecialPinnedDone(p)
  \/ SpecialCallArchive(p)
  \/ SpecialArchiveDone(p)
  \/ SpecialCheck(p)
  \/ SpecialDownloadDone(p)
  \/ SpecialUploadDone(p)
  \/ SpecialRemove(p)

LifespanNext == LifespanStartup \/ LifespanYield \/ LifespanShutdown

\* concurrent requests against one account with a short archive
ConcurrentWorlds == Worlds({"user", "other"}, {MaxActive}, {MaxPinned}, {Limit}, {FALSE})

Init == InitWith(ConcurrentWorlds)

Next ==
  \/ LifespanNext
  \/ ConnectionLost
  \/ \E p \in Procs : EnsureClient(p)
  \/ \E p \in Reqs : Handler(p)

Spec == Init /\ [][Next]_vars

\* one request at a time, against every account within the bounds
ArchiveSizes == {n \in 0..(MaxPages * Limit + 1) : n % Limit \in {0, 1}}

AllWorlds ==
  Worlds({"user", "other", "error"}, 0..MaxActive, 0..MaxPinned, ArchiveSizes, BOOLEAN)
    \cup Worlds({"channel"}, {MaxActive}, {MaxPinned}, {Limit}, {FALSE})

InitSeq == InitWith(AllWorlds)

NextSeq ==
  \/ LifespanNext
  \/ ConnectionLost
  \/ \E p \in {Lifespan, 1} : EnsureClient(p)
  \/ Handler(1)

SpecSeq == InitSeq /\ [][NextSeq]_vars

\* one request at a time against accounts of every archive size, under the
\* scheduling of the event loop: it resumes a coroutine whose await has
\* completed, and every awaited call to Telegram or to the file host returns
\* or raises
ArchiveWorlds == Worlds({"user"}, {MaxActive}, {MaxPinned}, ArchiveSizes, BOOLEAN)

InitArchive == InitWith(ArchiveWorlds)

FairSpecArchive == InitArchive /\ [][NextSeq]_vars /\ WF_vars(Handler(1))

\* ------------------------------------------------------------------------
\* Properties

Responded(p) == response[p] # NoResponse
Api(p) == req[p].endpoint \in {"current", "all", "special"}
Has(p, field) == field \in DOMAIN response[p].body
Attributed(p) == Has(p, "api_dev") /\ Has(p, "api_channel")
Failed(p) == response[p].status # 200 \/ (Has(p, "success") /\ response[p].body.success = FALSE)
WellFormedFailure(p) ==
  /\ Has(p, "success") /\ response[p].body.success = FALSE
  /\ Has(p, "error")
  /\ response[p].status \in {400, 404, 500}

\* every id some listing of the account can return
ListedIds(w) ==
  Range(ActiveStories(w)) \cup Range(PinnedStories(w, Limit)) \cup 1..w.archive

Count(stories, type) == Cardinality({i \in 1..Len(stories) : stories[i].type = type})

\* C1: in /api/current, /api/all and /api/special, a username that resolves
\* to a peer with neither user_id nor channel_id is answered with status 400.
C1_UnsupportedPeerIs400 ==
  \A p \in Reqs :
    (Responded(p) /\ Api(p) /\ ecret[p] /\ world.peer = "other")
      => response[p].status = 400

\* C2: at most one client handle is live (started and not yet stopped) in
\* every reachable state, the replacement path of ensure_client included.
C2_AtMostOneLiveClient == Cardinality(Live) <= 1

\* C3 as stated: every response of the four endpoints has `success` and both
\* attribution fields, and every failure response has success=false, `error`
\* and a status in {400, 404, 500}.
C3_EveryResponseHasSuccess ==
  \A p \in Reqs :
    Responded(p) =>
      /\ Has(p, "success") /\ Attributed(p)
      /\ (Failed(p) => WellFormedFailure(p))

\* C3 as amended: every response of the three /api endpoints has `success`
\* and both attribution fields, and every failure response of these has
\* success=false, `error` and a status in {400, 404, 500}; the response of
\* GET / has status 200 and both attribution fields, and no `success` field.
C3_ApiResponsesWellFormed ==
  \A p \in Reqs :
    Responded(p) =>
      /\ Attributed(p)
      /\ Api(p) => /\ Has(p, "success")
                   /\ (Failed(p) <=> response[p].body.success = FALSE)
                   /\ (Failed(p) => WellFormedFailure(p))
      /\ ~Api(p) => response[p].status = 200 /\ ~Has(p, "success")

C3_Witness ==
  \E p \in Reqs :
    /\ Responded(p) /\ req[p].endpoint = "special"
    /\ response[p].status = 400
    /\ response[p].body.error = "Unsupported media type"

\* C4: in /api/special with a resolved user or channel peer, a storyid that
\* no listing matched (it is in none of the lists, or the listing that holds
\* it raised) is answered with 404 and success=false, and neither a download
\* nor an upload was attempted.
C4_UnknownStoryIs404 ==
  \A p \in Reqs :
    (Responded(p) /\ req[p].endpoint = "special" /\ input_peer[p] \in {"user", "channel"})
      => /\ req[p].storyid \notin ListedIds(world) => target_story[p] = None
         /\ target_story[p] = None =>
              /\ response[p].status = 404
              /\ response[p].body.success = FALSE
              /\ media_type[p] = "None" /\ file_path[p] = None /\ upload_url[p] = None
              /\ files = {}

C4_Witness ==
  \E p \in Reqs :
    /\ Responded(p) /\ req[p].endpoint = "special"
    /\ world.archive = MaxPages * Limit /\ world.pinned > 0 /\ world.active > 0
    /\ req[p].storyid \notin ListedIds(world)
    /\ offset_id[p] = 1
    /\ response[p].status = 404

\* C5: in /api/all the reported total_count is the length of the returned
\* list; each listing contributes at most the stories it returned, and all of
\* them unless it raised; with no exception the count is the sum of the
\* account's active stories, its first 100 pinned stories and its whole
\* archive, whatever the number of archive pages.
C5_TotalCountIsSum ==
  \A p \in Reqs :
    (Responded(p) /\ req[p].endpoint = "all" /\ response[p].status = 200) =>
      LET b == response[p].body
          f == fetched[p]
          Part(listing, type) ==
            /\ Count(b.stories, type) <= f[listing]
            /\ listing \notin f.raised => Count(b.stories, type) = f[listing]
      IN  /\ b.total_count = Len(b.stories)
          /\ b.total_count = Count(b.stories, "Active") + Count(b.stories, "Pinned")
                               + Count(b.stories, "Archived")
          /\ Part("active", "Active")
          /\ Part("pinned", "Pinned")
          /\ Part("archived", "Archived")
          /\ f.raised = {} =>
               b.total_count = world.active + Min(world.pinned, Limit) + world.archive

C5_Witness ==
  \E p \in Reqs :
    /\ Responded(p) /\ req[p].endpoint = "all" /\ response[p].status = 200
    /\ fetched[p].raised = {}
    /\ world.archive = MaxPages * Limit + 1 /\ world.pinned > 0 /\ world.active > 0
    /\ response[p].body.total_count = MaxPages * Limit + 1 + world.pinned + world.active

\* C6 as stated: one ensure_client call issues at most one start().
C6_AtMostOneStartPerCall == \A p \in Procs : startCalls[p] <= 1

\* C6 as amended: one ensure_client call issues at most two start() calls:
\* the first on the handle it found (or on the one it built when there was
\* none), the second only after a failed reconnect, on a newly constructed
\* handle; a failed second start is followed by no further attempt.
C6_AtMostTwoStartsPerCall ==
  \A p \in Procs :
    /\ startCalls[p] <= 2
    /\ pc[p] \in {"aw_start_new", "aw_restart"} => startCalls[p] = 1
    /\ pc[p] = "aw_recreate" =>
         /\ startCalls[p] = 2
         /\ user = Len(clients) /\ user > 1 /\ ~clients[user].started
    /\ startCalls[p] = 2 => pc[p] \notin {"aw_start_new", "aw_restart", "ec_lock"}

C6_Witness ==
  \E p \in Reqs : pc[p] = "ec_ret" /\ startCalls[p] = 2 /\ ~ecret[p]

\* C7: in /api/special the downloaded file exists while the upload is
\* awaited and until the removal step, and it is gone when a response is
\* returned: 200 with download_url and without any local path after a
\* successful upload, 500 "Failed to upload file" after a failed one.
C7_LocalFileGoneAtResponse ==
  \A p \in Reqs :
    /\ pc[p] \in {"aw_upload", "remove"} => file_path[p] \in files
    /\ (Responded(p) /\ file_path[p] # None) =>
         /\ file_path[p] \notin files
         /\ IF upload_url[p] # None
              THEN /\ response[p].status = 200
                   /\ Has(p, "download_url")
                   /\ response[p].body.download_url = upload_url[p]
                   /\ ~Has(p, "file_path")
              ELSE /\ response[p].status = 500
                   /\ response[p].body.error = "Failed to upload file"

C7_Witness ==
  \E p \in Reqs :
    /\ Responded(p) /\ file_path[p] # None /\ upload_url[p] = None
    /\ response[p].status = 500

\* C8: the archive loop starts at offset 0; after a page it leaves when the
\* page is empty or shorter than 100 (in /api/special also when the page
\* holds the target), and otherwise asks again with the id of the page's
\* last story as offset; every loop that is entered is left.
ArchiveLoopStep(p) ==
  LET page == ArchivePage(world, offset_id[p], Limit)
      InLoop(at) == at \in {"call_archive", "aw_archive"}
  IN  /\ (~InLoop(pc[p]) /\ InLoop(pc'[p])) => offset_id'[p] = 0
      /\ (InLoop(pc[p]) /\ pc'[p] = "aw_archive") => offset_id'[p] = offset_id[p]
      /\ (pc[p] = "aw_archive" /\ pc'[p] = "call_archive") =>
           /\ Len(page) = Limit
           /\ offset_id'[p] = page[Len(page)]
           /\ offset_id'[p] >= 1
           /\ offset_id[p] # 0 => offset_id'[p] < offset_id[p]
           /\ req[p].endpoint = "special" => req[p].storyid \notin Range(page)
      /\ (pc[p] = "aw_archive" /\ ~InLoop(pc'[p]) /\ fetched'[p].raised = fetched[p].raised) =>
           \/ Len(page) < Limit
           \/ req[p].endpoint = "special" /\ req[p].storyid \in Range(page)

C8_ArchiveLoop ==
  /\ [][\A p \in Reqs : ArchiveLoopStep(p)]_vars
  /\ \A p \in Reqs :
       (pc[p] \in {"call_archive", "aw_archive"}) ~> (pc[p] \in {"check", "done"})

C8_Witness ==
  \E p \in Reqs :
    /\ Responded(p) /\ req[p].endpoint = "all"
    /\ world.archive = MaxPages * Limit
    /\ fetched[p].raised = {}
    /\ offset_id[p] = 1
    /\ Count(response[p].body.stories, "Archived") = MaxPages * Limit

\* C9: no caller of ensure_client is ever stopped on client_lock.
C9_NoCallerBlockedOnLock == \A p \in Procs : pc[p] # "ec_blocked"

\* C10: whenever a handler whose ensure_client call returned True is about to
\* call a method of the global `user`, `user` is not None.
C10_HandleNeverClearedUnderHandler ==
  \A p \in Reqs :
    (running = p /\ pc[p] \in {"call_active", "call_pinned", "call_archive"})
      => user # None

====
